---- MODULE Spec2Model ----
(***************************************************************************)
(* Task-graph scheduler of opsml_interfaces::genai::workflow:               *)
(* TaskList (task map, cached execution order, readiness query),            *)
(* Workflow (task list + agent registry, run entry point) and the           *)
(* round-based loop execute_workflow with its spawned execution units.      *)
(***************************************************************************)
EXTENDS Integers, Sequences, FiniteSets, TLC

(* ------------------------------ bounds --------------------------------- *)

\* task ids that add_task / update_task_status / remove_task are called with
TaskIds == {"A", "B", "C"}

\* the order in which a dependency vector lists ids (vectors are drawn
\* duplicate-free and in this order)
IdOrder == <<"A", "B", "C">>

\* longest dependency vector of an added task
MaxDeps == 2

\* number of distinct responses an executor call can return
NumResponses == 2

\* agent names: tasks are bound to either; only "agent" is ever registered
AgentNames == {"agent", "ghost"}

RegistrableNames == {"agent"}

Responses == 1..NumResponses

(* ------------------------------ helpers -------------------------------- *)

Range(s) == {s[i] : i \in 1..Len(s)}

\* Option<T>: None is the empty sequence, Some(x) the one-element sequence
None == <<>>

Some(x) == <<x>>

\* HashMap::get
get(m, k) == IF k \in DOMAIN m THEN Some(m[k]) ELSE None

\* HashMap::insert
insert(m, k, v) == [x \in DOMAIN m \cup {k} |-> IF x = k THEN v ELSE m[x]]

\* removal that also drops every entry whose dependencies list k
remove_cascade(m, k) ==
    [x \in {y \in DOMAIN m \ {k} :
               \A i \in 1..Len(m[y].dependencies) : m[y].dependencies[i] /= k}
        |-> m[x]]

\* HashMap::remove
remove(m, k) == [x \in DOMAIN m \ {k} |-> m[x]]

\* HashMap::new
EmptyMap == <<>>

\* the iteration orders a HashMap may present its keys (or values) in
Perms(S) == {s \in [1..Cardinality(S) -> S] : Range(s) = S}

\* TaskStatus
TaskStatus == {"Pending", "Running", "Completed", "Failed"}

\* dependency vectors a task is created with
DepVectors == {SelectSeq(IdOrder, LAMBDA x : x \in D) :
                  D \in {E \in SUBSET TaskIds : Cardinality(E) <= MaxDeps}}

\* a freshly created task: Pending, no result
NewTask(id, deps, agent_id) ==
    [id |-> id, dependencies |-> deps, agent_id |-> agent_id,
     status |-> "Pending", result |-> None]

(* --------------------------- TaskList (pure) --------------------------- *)

\* is_complete with any() for all(): true as soon as one task is terminal
is_complete_any(m) ==
    \E k \in DOMAIN m : m[k].status = "Completed" \/ m[k].status = "Failed"

\* is_complete testing for Pending only: a Running task does not keep the
\* graph incomplete
is_complete_ignores_running(m) == \A k \in DOMAIN m : m[k].status /= "Pending"

\* TaskList::is_complete
is_complete(m) ==
    \A k \in DOMAIN m : m[k].status = "Completed" \/ m[k].status = "Failed"

\* pending_count counting the Running tasks instead of the Pending ones
pending_count_running(m) == Cardinality({k \in DOMAIN m : m[k].status = "Running"})

\* TaskList::pending_count
pending_count(m) == Cardinality({k \in DOMAIN m : m[k].status = "Pending"})

\* TaskList::update_task_status
\* an update that creates the entry when the id is not in the map
update_task_status_upsert(m, task_id, status, result) ==
    IF get(m, task_id) /= None
    THEN [m EXCEPT ![task_id].status = status, ![task_id].result = result]
    ELSE insert(m, task_id,
                [NewTask(task_id, <<>>, "agent") EXCEPT
                    !.status = status, !.result = result])

update_task_status(m, task_id, status, result) ==
    IF get(m, task_id) /= None
    THEN [m EXCEPT ![task_id].status = status, ![task_id].result = result]
    ELSE m

RECURSIVE topological_sort(_, _, _)
RECURSIVE visit_dependencies(_, _, _)

\* topological_sort without the test of `visited`: only an id in progress
\* is skipped
topological_sort_no_visited(m, task_id, st) ==
    IF task_id \in st.temp_visited THEN st
    ELSE LET st1 == [st EXCEPT !.temp_visited = @ \cup {task_id}]
             st2 == IF get(m, task_id) /= None
                    THEN visit_dependencies(m, m[task_id].dependencies, st1)
                    ELSE st1
         IN  [visited      |-> st2.visited \cup {task_id},
              temp_visited |-> st2.temp_visited \ {task_id},
              order        |-> Append(st2.order, task_id)]

\* topological_sort pushing the id before it descends into the dependencies
topological_sort_preorder(m, task_id, st) ==
    IF task_id \in st.temp_visited THEN st
    ELSE IF task_id \in st.visited THEN st
    ELSE LET st1 == [visited      |-> st.visited \cup {task_id},
                     temp_visited |-> st.temp_visited \cup {task_id},
                     order        |-> Append(st.order, task_id)]
             st2 == IF get(m, task_id) /= None
                    THEN visit_dependencies(m, m[task_id].dependencies, st1)
                    ELSE st1
         IN  [st2 EXCEPT !.temp_visited = @ \ {task_id}]

\* TaskList::topological_sort; st = [visited, temp_visited, order]
topological_sort(m, task_id, st) ==
    IF task_id \in st.temp_visited THEN st
    ELSE IF task_id \in st.visited THEN st
    ELSE LET st1 == [st EXCEPT !.temp_visited = @ \cup {task_id}]
             st2 == IF get(m, task_id) /= None
                    THEN visit_dependencies(m, m[task_id].dependencies, st1)
                    ELSE st1
         IN  [visited      |-> st2.visited \cup {task_id},
              temp_visited |-> st2.temp_visited \ {task_id},
              order        |-> Append(st2.order, task_id)]

\* the loop over task.dependencies inside topological_sort
visit_dependencies(m, deps, st) ==
    IF deps = <<>> THEN st
    ELSE visit_dependencies(m, Tail(deps), topological_sort(m, Head(deps), st))

RECURSIVE rebuild_loop(_, _, _)

\* the loop over self.tasks.keys() inside rebuild_execution_order
rebuild_loop(m, keys, st) ==
    IF keys = <<>> THEN st
    ELSE rebuild_loop(m, Tail(keys),
                      IF Head(keys) \notin st.visited
                      THEN topological_sort(m, Head(keys), st)
                      ELSE st)

\* TaskList::rebuild_execution_order, for one iteration order of the keys
rebuild_execution_order(m, keys) ==
    rebuild_loop(m, keys, [visited |-> {}, temp_visited |-> {}, order |-> <<>>]).order

\* dep_completed with unwrap_or(true): an id that is not in the graph counts
\* as a satisfied dependency
dep_completed_absent_ok(m, dep_id) ==
    LET dep == get(m, dep_id)
    IN  IF dep /= None THEN dep[1].status = "Completed" ELSE TRUE

\* dep_completed accepting any terminal status: a Failed dependency counts
\* as satisfied
dep_completed_or_failed(m, dep_id) ==
    LET dep == get(m, dep_id)
    IN  IF dep /= None THEN dep[1].status \in {"Completed", "Failed"} ELSE FALSE

\* the dependency test of the filter closure in get_ready_tasks
dep_completed(m, dep_id) ==
    LET dep == get(m, dep_id)
    IN  IF dep /= None THEN dep[1].status = "Completed" ELSE FALSE

\* get_ready_tasks returning only the Pending tasks that have no dependency
get_ready_tasks_roots_only(m) ==
    {m[k] : k \in {x \in DOMAIN m :
                     m[x].status = "Pending" /\ m[x].dependencies = <<>>}}

\* get_ready_tasks without the dependency test: every Pending task is ready
get_ready_tasks_any_pending(m) ==
    {m[k] : k \in {x \in DOMAIN m : m[x].status = "Pending"}}

\* TaskList::get_ready_tasks (the returned vector, as the set of its clones)
get_ready_tasks(m) ==
    {m[k] : k \in {x \in DOMAIN m :
                     /\ m[x].status = "Pending"
                     /\ \A i \in 1..Len(m[x].dependencies) :
                           dep_completed(m, m[x].dependencies[i])}}

(* ------------------------------- state --------------------------------- *)

VARIABLES
    tasks,            \* Workflow.tasks.tasks of the workflow run is called on
    execution_order,  \* Workflow.tasks.execution_order of that workflow
    agents,           \* names registered in Workflow.agents
    shared,           \* task map of the clone behind Arc<RwLock<Workflow>>
    shared_order,     \* execution_order of that clone
    pc,               \* position of the coordinator (Workflow::run / execute_workflow)
    ready_tasks,      \* the vector returned by get_ready_tasks, not yet iterated
    handles,          \* ids whose JoinHandle is in `handles` of the current round
    unit,             \* per task id: the execution unit spawned for it
    exit,             \* how the while loop was left
    result,           \* value returned by execute_workflow
    log,              \* line logged by Workflow::run after execute_workflow
    dispatched,       \* per task id: number of executor calls issued
    selected,         \* per task id: number of ready snapshots holding it
    rounds,           \* number of loop iterations with a non-empty ready set
    call,             \* a direct call of Agent::execute_task / execute_async_task
    lock,             \* the RwLock around the shared workflow: who holds it
    loop_task         \* `task` of the for loop over ready_tasks, between its steps

vars == <<tasks, execution_order, agents, shared, shared_order, pc, ready_tasks, handles,
          unit, exit, result, log, dispatched, selected, rounds, call, lock,
          loop_task>>

\* the lock and the loop variable, followed step by step by SpecLock only
lockVars == <<lock, loop_task>>

wfVars == <<tasks, execution_order, agents>>

runVars == <<shared, shared_order, pc, ready_tasks, handles, unit, exit, result, log,
             dispatched, selected, rounds, call, lockVars>>

\* unit[t].st: "none" (never spawned), "spawned", "calling" (inside
\* execute_async_task), then how the unit ended: "ok", "err", "panicked",
\* "noagent"; response is what the executor call returned
NoUnit == [st |-> "none", agent |-> FALSE, context |-> EmptyMap, response |-> None]

\* the states in which a unit is over and its JoinHandle resolves
Finished == {"ok", "err", "panicked", "noagent"}

\* no call of the agent has been made
NoCall == [st |-> "none", fn |-> "none", task |-> None, context_messages |-> EmptyMap,
           task_after |-> None, sent |-> None, ret |-> None]

\* the lock is held by nobody
Free == [mode |-> "free", holder |-> "none"]

\* Workflow::new / TaskList::new, before run is called
InitWorkflow ==
    /\ tasks = EmptyMap
    /\ execution_order = <<>>
    /\ agents = {}
    /\ shared = EmptyMap
    /\ shared_order = <<>>
    /\ pc = "idle"
    /\ ready_tasks = {}
    /\ handles = {}
    /\ unit = [t \in TaskIds |-> NoUnit]
    /\ exit = "none"
    /\ result = "none"
    /\ log = "none"
    /\ dispatched = [t \in TaskIds |-> 0]
    /\ selected = [t \in TaskIds |-> 0]
    /\ rounds = 0
    /\ lock = Free
    /\ loop_task = None

Init == InitWorkflow /\ call = NoCall

(* ----------------------- graph and registry calls ---------------------- *)

\* TaskList::add_task (through Workflow::add_task): insert, then rebuild the
\* order in whatever order the map presents its keys
add_task(task) ==
    /\ pc = "idle"
    /\ tasks' = insert(tasks, task.id, task)
    /\ execution_order' \in
          {rebuild_execution_order(tasks', keys) : keys \in Perms(DOMAIN tasks')}
    /\ UNCHANGED <<agents, runVars>>

\* Workflow::add_agent
add_agent(name) ==
    /\ pc = "idle"
    /\ agents' = agents \cup {name}
    /\ UNCHANGED <<tasks, execution_order, runVars>>

\* TaskList::remove_task: the cached order is left as it is
remove_task(task_id) ==
    /\ pc = "idle"
    /\ tasks' = remove(tasks, task_id)
    /\ UNCHANGED <<execution_order, agents, runVars>>

\* a call of TaskList::update_task_status on the task list
UpdateTaskStatus(task_id, status, res) ==
    /\ pc = "idle"
    /\ tasks' = update_task_status(tasks, task_id, status, res)
    /\ UNCHANGED <<execution_order, agents, runVars>>

(* --------------------------- Workflow::run ----------------------------- *)

\* Workflow::run: clone the workflow, wrap the clone, enter execute_workflow
run ==
    /\ pc = "idle"
    /\ shared' = tasks
    /\ shared_order' = execution_order
    /\ pc' = "check"
    /\ UNCHANGED <<wfVars, call, lockVars, ready_tasks, handles, unit, exit,
                   result, log, dispatched, selected, rounds>>

\* the loop condition: while !workflow.read().unwrap().is_complete()
CheckComplete ==
    /\ pc = "check"
    /\ IF is_complete(shared)
       THEN pc' = "exited" /\ exit' = "complete"
       ELSE pc' = "snapshot" /\ exit' = exit
    /\ UNCHANGED <<wfVars, call, lockVars, shared_order, shared, ready_tasks,
                   handles, unit, result, log, dispatched, selected, rounds>>

\* let ready_tasks = wf.tasks.get_ready_tasks()
Snapshot ==
    /\ pc = "snapshot"
    /\ ready_tasks' = get_ready_tasks(shared)
    /\ selected' = [t \in TaskIds |->
                       IF \E r \in ready_tasks' : r.id = t
                       THEN selected[t] + 1 ELSE selected[t]]
    /\ IF ready_tasks' = {}
       THEN pc' = "empty" /\ rounds' = rounds
       ELSE pc' = "dispatch" /\ rounds' = rounds + 1
    /\ UNCHANGED <<wfVars, call, lockVars, shared_order, shared, handles, unit,
                   exit, result, log, dispatched>>

\* ready_tasks.is_empty(): break when tasks are still Pending, else continue
EmptyReady ==
    /\ pc = "empty"
    /\ IF pending_count(shared) > 0
       THEN pc' = "exited" /\ exit' = "deadlock"
       ELSE pc' = "check" /\ exit' = exit
    /\ UNCHANGED <<wfVars, call, lockVars, shared_order, shared, ready_tasks,
                   handles, unit, result, log, dispatched, selected, rounds>>

\* ChatResponse::to_message(Role::Assistant).unwrap_or_default()
to_message(response) == <<[role |-> "assistant", content |-> response]>>

\* the context block giving an entry to every task of the graph that has a
\* result, dependency or not
build_context_whole_graph(m, task) ==
    [d \in {x \in DOMAIN m : m[x].result /= None} |-> to_message(m[d].result[1])]

\* the context block of the loop body: one entry per dependency that is in
\* the graph and has a result
build_context(m, task) ==
    [d \in {x \in Range(task.dependencies) :
                get(m, x) /= None /\ m[x].result /= None}
        |-> to_message(m[d].result[1])]

\* the "Mark task as running" block marking every Pending task at once
mark_running_all_pending(m, task_id) ==
    [k \in DOMAIN m |->
        IF m[k].status = "Pending"
        THEN [m[k] EXCEPT !.status = "Running", !.result = None]
        ELSE m[k]]

\* the loop body without the "Mark task as running" block
mark_running_skipped(m, task_id) == m

\* the task map after the "Mark task as running" block
mark_running(m, task_id) == update_task_status(m, task_id, "Running", None)

\* a loop body that spawns the unit of one ready task and leaves the loop,
\* the other tasks of the snapshot being left for a later round
Dispatch_rest_deferred(task) ==
    /\ pc = "dispatch"
    /\ task \in ready_tasks
    /\ shared' = mark_running(shared, task.id)
    /\ unit' = [unit EXCEPT ![task.id] =
                   [st      |-> "spawned",
                    agent   |-> task.agent_id \in agents,
                    context |-> build_context(shared', task),
                    response |-> None]]
    /\ handles' = handles \cup {task.id}
    /\ ready_tasks' = {}
    /\ pc' = "join"
    /\ UNCHANGED <<wfVars, call, lockVars, shared_order, exit, result, log,
                   dispatched, selected, rounds>>

\* one iteration of `for task in ready_tasks`: mark Running, build the
\* context, look the agent up, spawn the unit, push its handle
Dispatch(task) ==
    /\ pc = "dispatch"
    /\ task \in ready_tasks
    /\ shared' = mark_running(shared, task.id)
    /\ unit' = [unit EXCEPT ![task.id] =
                   [st      |-> "spawned",
                    agent   |-> task.agent_id \in agents,
                    context |-> build_context(shared', task),
                    response |-> None]]
    /\ handles' = handles \cup {task.id}
    /\ ready_tasks' = ready_tasks \ {task}
    /\ pc' = IF ready_tasks' = {} THEN "join" ELSE "dispatch"
    /\ UNCHANGED <<wfVars, call, lockVars, shared_order, exit, result, log,
                   dispatched, selected, rounds>>

(* --------------------------- execution units --------------------------- *)

\* a unit that starts its call only when no other unit is inside a call of
\* the same agent
UnitStart_agent_exclusive(t) ==
    /\ unit[t].st = "spawned"
    /\ \A u \in TaskIds \ {t} :
          ~(/\ u \in DOMAIN shared
            /\ unit[u].st = "calling"
            /\ shared[u].agent_id = shared[t].agent_id)
    /\ IF unit[t].agent
       THEN /\ unit' = [unit EXCEPT ![t].st = "calling"]
            /\ dispatched' = [dispatched EXCEPT ![t] = @ + 1]
       ELSE /\ unit' = [unit EXCEPT ![t].st = "noagent"]
            /\ dispatched' = dispatched
    /\ UNCHANGED <<wfVars, call, lockVars, shared_order, shared, pc,
                   ready_tasks, handles, exit, result, log, selected, rounds>>

\* the spawned future starts: with an agent it issues execute_async_task,
\* without one its body is empty and it finishes
UnitStart(t) ==
    /\ unit[t].st = "spawned"
    /\ IF unit[t].agent
       THEN /\ unit' = [unit EXCEPT ![t].st = "calling"]
            /\ dispatched' = [dispatched EXCEPT ![t] = @ + 1]
       ELSE /\ unit' = [unit EXCEPT ![t].st = "noagent"]
            /\ dispatched' = dispatched
    /\ UNCHANGED <<wfVars, call, lockVars, shared_order, shared, pc,
                   ready_tasks, handles, exit, result, log, selected, rounds>>

\* the Ok(response) arm storing no result
on_ok_result_dropped(m, task_id, response) ==
    update_task_status(m, task_id, "Completed", None)

\* the task map after the Ok(response) arm
on_ok(m, task_id, response) ==
    update_task_status(m, task_id, "Completed", Some(response))

\* the Err(e) arm putting the task back to Pending, to be tried again
on_err_retry(m, task_id) == update_task_status(m, task_id, "Pending", None)

\* the Err(e) arm failing every task that is Running, not only its own
on_err_abort_round(m, task_id) ==
    [k \in DOMAIN m |->
        IF m[k].status = "Running"
        THEN [m[k] EXCEPT !.status = "Failed", !.result = None]
        ELSE m[k]]

\* the Err(e) arm also failing every task that is still Pending
on_err_cancel_pending(m, task_id) ==
    [k \in DOMAIN m |->
        IF k = task_id \/ m[k].status = "Pending"
        THEN [m[k] EXCEPT !.status = "Failed", !.result = None]
        ELSE m[k]]

\* the task map after the Err(e) arm
on_err(m, task_id) == update_task_status(m, task_id, "Failed", None)

\* Result::Ok(v) and Result::Err(e)
Ok(v) == [ok |-> TRUE, value |-> Some(v), error |-> None]

Err(e) == [ok |-> FALSE, value |-> None, error |-> Some(e)]

\* errors self.client.execute(&cloned_task.prompt) can return
ClientErrors == {"network", "auth"}

\* AgentResponse::new(id, chat_response)
AgentResponse_new(id, chat_response) == [id |-> id, response |-> chat_response]

\* Vec::push: the element goes to the end
insert_back(v, element) == Append(v, element)

\* Vec::insert(0, element)
insert_front(v, element) == <<element>> \o v

RECURSIVE prepend_messages(_, _)

\* for message in messages { user_message.insert(0, message.clone()) }
prepend_messages(user_message, messages) ==
    IF messages = <<>> THEN user_message
    ELSE prepend_messages(insert_front(user_message, Head(messages)),
                          Tail(messages))

RECURSIVE prepend_dependencies(_, _, _)

\* for dep in &cloned_task.dependencies
\*     { if let Some(messages) = context_messages.get(dep) { ... } }
prepend_dependencies(cloned_task, deps, context_messages) ==
    IF deps = <<>> THEN cloned_task
    ELSE LET messages == get(context_messages, Head(deps))
         IN  prepend_dependencies(
                 IF messages /= None
                 THEN [cloned_task EXCEPT !.prompt.user_message =
                                              prepend_messages(@, messages[1])]
                 ELSE cloned_task,
                 Tail(deps), context_messages)

\* the loop run on the task itself, no copy being made
prepend_without_clone(task, context_messages) ==
    LET written == IF task.dependencies /= <<>>
                   THEN prepend_dependencies(task, task.dependencies,
                                             context_messages)
                   ELSE task
    IN  [task |-> written, cloned_task |-> written]

\* let mut cloned_task = task.clone(), then the loop on the copy: the task
\* of the caller and the copy as they are when the client is called
clone_and_prepend(task, context_messages) ==
    LET cloned_task == task
    IN  [task        |-> task,
         cloned_task |-> IF cloned_task.dependencies /= <<>>
                         THEN prepend_dependencies(cloned_task,
                                                   cloned_task.dependencies,
                                                   context_messages)
                         ELSE cloned_task]

\* Agent::execute_task: the `?` after the client call returns the client's
\* error, otherwise the response is wrapped with the task id
execute_task(task, context_messages, client_result) ==
    IF ~client_result.ok
    THEN Err(client_result.error[1])
    ELSE Ok(AgentResponse_new(task.id, client_result.value[1]))

\* an agent answering a failed client call with a response of its own
execute_async_task_swallows_error(task, context_messages, client_result) ==
    IF ~client_result.ok
    THEN Ok(AgentResponse_new(task.id, CHOOSE r \in Responses : TRUE))
    ELSE Ok(AgentResponse_new(task.id, client_result.value[1]))

\* Agent::execute_async_task: as execute_task, on the caller's runtime
execute_async_task(task, context_messages, client_result) ==
    IF ~client_result.ok
    THEN Err(client_result.error[1])
    ELSE Ok(AgentResponse_new(task.id, client_result.value[1]))

\* the body of the spawned future once the client call is over:
\* match agent.execute_async_task(&task, context).await, the task being the
\* clone of the snapshot, which has the id and dependencies of shared[t]
ExecutorReturn(t, client_result) ==
    /\ unit[t].st = "calling"
    /\ LET ret == execute_async_task(shared[t], unit[t].context, client_result)
       IN  IF ret.ok
           THEN /\ shared' = on_ok(shared, t, ret.value[1].response)
                /\ unit' = [unit EXCEPT ![t].st = "ok",
                                        ![t].response = Some(ret.value[1].response)]
           ELSE /\ shared' = on_err(shared, t)
                /\ unit' = [unit EXCEPT ![t].st = "err"]
    /\ UNCHANGED <<wfVars, call, lockVars, shared_order, pc, ready_tasks,
                   handles, exit, result, log, dispatched, selected, rounds>>

\* the client call returns Ok(response)
ExecutorOk(t, response) == ExecutorReturn(t, Ok(response))

\* the client call returns Err(e)
ExecutorErr(t) == \E e \in ClientErrors : ExecutorReturn(t, Err(e))

\* the unit panics inside the executor call: the runtime ends the unit and
\* its JoinHandle yields Err(JoinError); neither arm of the match runs
ExecutorPanic(t) ==
    /\ unit[t].st = "calling"
    /\ unit' = [unit EXCEPT ![t].st = "panicked"]
    /\ UNCHANGED <<wfVars, call, lockVars, shared_order, shared, pc,
                   ready_tasks, handles, exit, result, log, dispatched,
                   selected, rounds>>

\* the loop going on to the next iteration without awaiting the handles
Join_without_await ==
    /\ pc = "join"
    /\ handles' = {}
    /\ pc' = "check"
    /\ UNCHANGED <<wfVars, call, lockVars, shared_order, shared, ready_tasks,
                   unit, exit, result, log, dispatched, selected, rounds>>

\* for handle in handles { handle.await }: every unit of the round is over
Join ==
    /\ pc = "join"
    /\ \A t \in handles : unit[t].st \in Finished
    /\ handles' = {}
    /\ pc' = "check"
    /\ UNCHANGED <<wfVars, call, lockVars, shared_order, shared, ready_tasks,
                   unit, exit, result, log, dispatched, selected, rounds>>

\* execute_workflow returns Ok(()) and Workflow::run logs the outcome
Return ==
    /\ pc = "exited"
    /\ result' = "Ok"
    /\ log' = IF result' = "Ok"
              THEN "Workflow execution completed successfully."
              ELSE "Workflow execution failed"
    /\ pc' = "done"
    /\ UNCHANGED <<wfVars, call, lockVars, shared_order, shared, ready_tasks,
                   handles, unit, exit, dispatched, selected, rounds>>

(* --------------------------- specifications ---------------------------- *)

\* tasks handed to Workflow::add_task
TaskInputs ==
    {NewTask(id, deps, a) : id \in TaskIds, deps \in DepVectors, a \in AgentNames}

Coordinator ==
    \/ run
    \/ CheckComplete
    \/ Snapshot
    \/ EmptyReady
    \/ \E task \in ready_tasks : Dispatch(task)
    \/ Join
    \/ Return

Unit(t) ==
    \/ UnitStart(t)
    \/ \E response \in Responses : ExecutorOk(t, response)
    \/ ExecutorErr(t)
    \/ ExecutorPanic(t)

\* the caller builds the graph from tasks with fresh ids (overwriting an id
\* is explored by SpecApi), registers agents, then calls run
Next ==
    \/ \E task \in {x \in TaskInputs : x.id \notin DOMAIN tasks} : add_task(task)
    \/ \E name \in RegistrableNames : add_agent(name)
    \/ Coordinator
    \/ \E t \in TaskIds : Unit(t)

(* ----------------------- direct calls of the agent -------------------- *)

\* longest message vector of a prompt or of a context entry
MaxMessages == 2

\* the i-th user message of a prompt
UserMessage(i) == [role |-> "user", content |-> <<"user", i>>]

\* the i-th message of the context entry under key d
ContextMessage(d, i) == [role |-> "assistant", content |-> <<d, i>>]

\* id of the task the agent is called with
AgentTaskIds == {"A"}

\* tasks with a prompt
AgentTasks ==
    {[id |-> id, dependencies |-> deps, agent_id |-> "agent",
      status |-> "Pending", result |-> None,
      prompt |-> [user_message |-> [i \in 1..n |-> UserMessage(i)]]] :
        id \in AgentTaskIds, deps \in DepVectors, n \in 1..MaxMessages}

\* context maps: any set of keys, each with 0..MaxMessages messages
ContextInputs ==
    UNION {{[d \in K |-> [i \in 1..len[d] |-> ContextMessage(d, i)]] :
               len \in [K -> 0..MaxMessages]} : K \in SUBSET TaskIds}

\* a caller holds a task and a context and is about to call the agent
InitAgent ==
    /\ InitWorkflow
    /\ call \in {[NoCall EXCEPT !.st = "ready", !.task = Some(task),
                                !.context_messages = context_messages] :
                     task \in AgentTasks, context_messages \in ContextInputs}

\* Agent::execute_task, the client call having the outcome client_result
ExecuteTask(client_result) ==
    /\ call.st = "ready"
    /\ LET frame == clone_and_prepend(call.task[1], call.context_messages)
       IN  call' = [call EXCEPT
                       !.st = "returned",
                       !.fn = "execute_task",
                       !.task_after = Some(frame.task),
                       !.sent = Some(frame.cloned_task.prompt),
                       !.ret = Some(execute_task(call.task[1],
                                                 call.context_messages,
                                                 client_result))]
    /\ UNCHANGED <<wfVars, lockVars, shared, shared_order, pc, ready_tasks,
                   handles, unit, exit, result, log, dispatched, selected,
                   rounds>>

\* Agent::execute_async_task, the client call having the outcome
\* client_result
ExecuteAsyncTask(client_result) ==
    /\ call.st = "ready"
    /\ LET frame == clone_and_prepend(call.task[1], call.context_messages)
       IN  call' = [call EXCEPT
                       !.st = "returned",
                       !.fn = "execute_async_task",
                       !.task_after = Some(frame.task),
                       !.sent = Some(frame.cloned_task.prompt),
                       !.ret = Some(execute_async_task(call.task[1],
                                                       call.context_messages,
                                                       client_result))]
    /\ UNCHANGED <<wfVars, lockVars, shared, shared_order, pc, ready_tasks,
                   handles, unit, exit, result, log, dispatched, selected,
                   rounds>>

\* outcomes of self.client.execute(&cloned_task.prompt)
ClientResults == {Ok(r) : r \in Responses} \cup {Err(e) : e \in ClientErrors}

NextAgent ==
    \/ \E client_result \in ClientResults : ExecuteTask(client_result)
    \/ \E client_result \in ClientResults : ExecuteAsyncTask(client_result)

\* the agent is called once, directly, with a task and a context
SpecAgent == InitAgent /\ [][NextAgent]_vars

(* ------------------------------ workflow ------------------------------- *)

\* a workflow is built, then run once with no outside mutation
Spec == Init /\ [][Next]_vars

\* Workflow::add_task called by another holder of the Arc<RwLock<Workflow>>
\* while execute_workflow is in progress: under the write lock the task is
\* inserted into the shared clone and the clone's order is rebuilt
shared_add_task(task) ==
    /\ pc \in {"check", "snapshot", "empty", "dispatch", "join", "exited"}
    /\ shared' = insert(shared, task.id, task)
    /\ shared_order' \in
          {rebuild_execution_order(shared', keys) : keys \in Perms(DOMAIN shared')}
    /\ UNCHANGED <<wfVars, call, lockVars, pc, ready_tasks, handles, unit,
                   exit, result, log, dispatched, selected, rounds>>

\* id of the task added from outside, bound to a registered agent name
SharedTaskIds == {"C"}

SharedTaskInputs ==
    {NewTask(id, deps, a) :
        id \in SharedTaskIds, deps \in DepVectors, a \in RegistrableNames}

\* the run of Spec with a task of a fresh id added to the shared workflow
\* from outside while execute_workflow is in progress
NextShared ==
    \/ Next
    \/ \E task \in {x \in SharedTaskInputs : x.id \notin DOMAIN shared} :
          shared_add_task(task)

SpecShared == Init /\ [][NextShared]_vars

\* ids of the tasks put into the graph when the TaskList calls are explored
\* on their own; the remaining id of TaskIds only occurs as a dependency or
\* as the argument of a call on an id that is not in the graph
ApiTaskIds == {"A", "B"}

ApiTaskInputs ==
    {NewTask(id, deps, "agent") : id \in ApiTaskIds, deps \in DepVectors}

Options(S) == {None} \cup {Some(x) : x \in S}

NextApi ==
    \/ \E task \in ApiTaskInputs : add_task(task)
    \/ \E task_id \in TaskIds : remove_task(task_id)
    \/ \E task_id \in TaskIds, status \in TaskStatus, res \in Options(Responses) :
          UpdateTaskStatus(task_id, status, res)

\* any sequence of TaskList calls on a task list, no run
SpecApi == Init /\ [][NextApi]_vars

\* the dispatch units are scheduled by the runtime and every executor call
\* returns, fails or faults; the coordinator keeps running once started
Loop == CheckComplete \/ Snapshot \/ EmptyReady
           \/ (\E task \in ready_tasks : Dispatch(task)) \/ Join \/ Return

FairSpec ==
    /\ Spec
    /\ WF_vars(Loop)
    /\ \A t \in TaskIds : WF_vars(Unit(t))

(* ------------- the run at the grain of the lock acquisitions ----------- *)

\* the lock held by `who` through a read or a write guard
Held(who, mode) == [mode |-> mode, holder |-> who]

\* ids of the tasks of the graphs run step by step
LockTaskIds == {"A", "B"}

LockTaskInputs ==
    {NewTask(id, deps, a) :
        id \in LockTaskIds, deps \in DepVectors, a \in AgentNames}

\* workflow.read().unwrap() of the coordinator (while condition, snapshot,
\* pending_count, context, agent lookup) returns when no writer holds the
\* lock
CoordinatorRead ==
    /\ pc \in {"check", "snapshot", "empty", "context", "agent"}
    /\ lock.mode /= "write" /\ lock.holder /= "coordinator"
    /\ lock' = Held("coordinator", "read")
    /\ UNCHANGED <<wfVars, call, loop_task, shared, shared_order, pc,
                   ready_tasks, handles, unit, exit, result, log, dispatched,
                   selected, rounds>>

\* workflow.write().unwrap() of the "Mark task as running" block returns
\* when nobody holds the lock
CoordinatorWrite ==
    /\ pc = "mark"
    /\ lock = Free
    /\ lock' = Held("coordinator", "write")
    /\ UNCHANGED <<wfVars, call, loop_task, shared, shared_order, pc,
                   ready_tasks, handles, unit, exit, result, log, dispatched,
                   selected, rounds>>

\* the while condition under its read guard, dropped with the condition
LockedCheckComplete ==
    /\ pc = "check"
    /\ lock = Held("coordinator", "read")
    /\ IF is_complete(shared)
       THEN pc' = "exited" /\ exit' = "complete"
       ELSE pc' = "snapshot" /\ exit' = exit
    /\ lock' = Free
    /\ UNCHANGED <<wfVars, call, loop_task, shared, shared_order, ready_tasks,
                   handles, unit, result, log, dispatched, selected, rounds>>

\* the snapshot block under its read guard, dropped at the end of the block
LockedSnapshot ==
    /\ pc = "snapshot"
    /\ lock = Held("coordinator", "read")
    /\ ready_tasks' = get_ready_tasks(shared)
    /\ selected' = [t \in TaskIds |->
                       IF \E r \in ready_tasks' : r.id = t
                       THEN selected[t] + 1 ELSE selected[t]]
    /\ IF ready_tasks' = {}
       THEN pc' = "empty" /\ rounds' = rounds
       ELSE pc' = "dispatch" /\ rounds' = rounds + 1
    /\ lock' = Free
    /\ UNCHANGED <<wfVars, call, loop_task, shared, shared_order, handles,
                   unit, exit, result, log, dispatched>>

\* pending_count read under its read guard, dropped with the statement
LockedEmptyReady ==
    /\ pc = "empty"
    /\ lock = Held("coordinator", "read")
    /\ IF pending_count(shared) > 0
       THEN pc' = "exited" /\ exit' = "deadlock"
       ELSE pc' = "check" /\ exit' = exit
    /\ lock' = Free
    /\ UNCHANGED <<wfVars, call, loop_task, shared, shared_order, ready_tasks,
                   handles, unit, result, log, dispatched, selected, rounds>>

\* `for task in ready_tasks` yields its next task
NextTask ==
    /\ pc = "dispatch"
    /\ \E task \in ready_tasks :
          /\ loop_task' = Some(task)
          /\ ready_tasks' = ready_tasks \ {task}
    /\ pc' = "mark"
    /\ UNCHANGED <<wfVars, call, lock, shared, shared_order, handles, unit,
                   exit, result, log, dispatched, selected, rounds>>

\* the "Mark task as running" block under its write guard
LockedMarkRunning ==
    /\ pc = "mark"
    /\ lock = Held("coordinator", "write")
    /\ shared' = mark_running(shared, loop_task[1].id)
    /\ lock' = Free
    /\ pc' = "context"
    /\ UNCHANGED <<wfVars, call, loop_task, shared_order, ready_tasks, handles,
                   unit, exit, result, log, dispatched, selected, rounds>>

\* the context block under its read guard
LockedBuildContext ==
    /\ pc = "context"
    /\ lock = Held("coordinator", "read")
    /\ unit' = [unit EXCEPT ![loop_task[1].id].context =
                                build_context(shared, loop_task[1])]
    /\ lock' = Free
    /\ pc' = "agent"
    /\ UNCHANGED <<wfVars, call, loop_task, shared, shared_order, ready_tasks,
                   handles, exit, result, log, dispatched, selected, rounds>>

\* the agent lookup under its read guard
LockedGetAgent ==
    /\ pc = "agent"
    /\ lock = Held("coordinator", "read")
    /\ unit' = [unit EXCEPT ![loop_task[1].id].agent =
                                loop_task[1].agent_id \in agents]
    /\ lock' = Free
    /\ pc' = "spawn"
    /\ UNCHANGED <<wfVars, call, loop_task, shared, shared_order, ready_tasks,
                   handles, exit, result, log, dispatched, selected, rounds>>

\* tokio::spawn and handles.push: no guard is alive here
Spawn ==
    /\ pc = "spawn"
    /\ unit' = [unit EXCEPT ![loop_task[1].id].st = "spawned"]
    /\ handles' = handles \cup {loop_task[1].id}
    /\ loop_task' = None
    /\ pc' = IF ready_tasks = {} THEN "join" ELSE "dispatch"
    /\ UNCHANGED <<wfVars, call, lock, shared, shared_order, ready_tasks, exit,
                   result, log, dispatched, selected, rounds>>

\* agent.execute_async_task(&task, context).await is over: the future goes
\* on into one arm of the match
CallReturns(t, client_result) ==
    /\ unit[t].st = "calling"
    /\ LET ret == execute_async_task(shared[t], unit[t].context, client_result)
       IN  unit' = IF ret.ok
                   THEN [unit EXCEPT ![t].st = "got_ok",
                                     ![t].response = Some(ret.value[1].response)]
                   ELSE [unit EXCEPT ![t].st = "got_err"]
    /\ UNCHANGED <<wfVars, call, lockVars, shared, shared_order, pc,
                   ready_tasks, handles, exit, result, log, dispatched,
                   selected, rounds>>

\* a future taking the write guard when it is spawned and keeping it over
\* the await of the executor call
UnitWrite_before_call(t) ==
    /\ unit[t].st \in {"calling", "got_ok", "got_err"}
    /\ lock = Free
    /\ lock' = Held(t, "write")
    /\ UNCHANGED <<wfVars, call, loop_task, shared, shared_order, pc,
                   ready_tasks, handles, unit, exit, result, log, dispatched,
                   selected, rounds>>

\* workflow.write().unwrap() inside the arm returns when nobody holds the
\* lock
UnitWrite(t) ==
    /\ unit[t].st \in {"got_ok", "got_err"}
    /\ lock = Free
    /\ lock' = Held(t, "write")
    /\ UNCHANGED <<wfVars, call, loop_task, shared, shared_order, pc,
                   ready_tasks, handles, unit, exit, result, log, dispatched,
                   selected, rounds>>

\* update_task_status under the write guard of the arm, dropped at the end
\* of the arm
LockedRecord(t) ==
    /\ unit[t].st \in {"got_ok", "got_err"}
    /\ lock = Held(t, "write")
    /\ IF unit[t].st = "got_ok"
       THEN /\ shared' = on_ok(shared, t, unit[t].response[1])
            /\ unit' = [unit EXCEPT ![t].st = "ok"]
       ELSE /\ shared' = on_err(shared, t)
            /\ unit' = [unit EXCEPT ![t].st = "err"]
    /\ lock' = Free
    /\ UNCHANGED <<wfVars, call, loop_task, shared_order, pc, ready_tasks,
                   handles, exit, result, log, dispatched, selected, rounds>>

CoordinatorLocked ==
    \/ CoordinatorRead
    \/ CoordinatorWrite
    \/ LockedCheckComplete
    \/ LockedSnapshot
    \/ LockedEmptyReady
    \/ NextTask
    \/ LockedMarkRunning
    \/ LockedBuildContext
    \/ LockedGetAgent
    \/ Spawn
    \/ Join
    \/ Return

UnitLocked(t) ==
    \/ UnitStart(t)
    \/ \E client_result \in ClientResults : CallReturns(t, client_result)
    \/ UnitWrite(t)
    \/ LockedRecord(t)
    \/ ExecutorPanic(t)

NextLock ==
    \/ \E task \in {x \in LockTaskInputs : x.id \notin DOMAIN tasks} :
          add_task(task)
    \/ \E name \in RegistrableNames : add_agent(name)
    \/ run
    \/ CoordinatorLocked
    \/ \E t \in TaskIds : UnitLocked(t)

\* the run of Spec with every lock acquisition as a step of its own; the
\* runtime goes on polling the coordinator and every spawned future
SpecLock ==
    /\ Init
    /\ [][NextLock]_vars
    /\ WF_vars(CoordinatorLocked)
    /\ \A t \in TaskIds : WF_vars(UnitLocked(t))

(* ------------------------------ C1 ------------------------------------- *)

\* the ids a task list must report ready: Pending, every dependency in the
\* graph and Completed
ReadyIds(m) ==
    {t \in DOMAIN m :
        /\ m[t].status = "Pending"
        /\ \A d \in Range(m[t].dependencies) :
              d \in DOMAIN m /\ m[d].status = "Completed"}

\* C1: in every state of the task graph get_ready_tasks returns exactly the
\* tasks that are Pending with every dependency present and Completed, each
\* as it stands in the task map, whatever execution_order holds
C1_ReadyExact ==
    /\ {r.id : r \in get_ready_tasks(tasks)} = ReadyIds(tasks)
    /\ \A r \in get_ready_tasks(tasks) : r = tasks[r.id]

\* a task is ready because its dependency is Completed, while the other
\* task of the graph is not ready
C1_Witness ==
    /\ \E r \in get_ready_tasks(tasks) :
          /\ r.dependencies /= <<>>
          /\ \A d \in Range(r.dependencies) : tasks[d].status = "Completed"
    /\ \E t \in DOMAIN tasks : t \notin ReadyIds(tasks)

(* ------------------------------ C2 ------------------------------------- *)

\* C2: during a run without outside mutation, every task that is Running or
\* Completed has all its dependencies in the graph and Completed
C2_DepsBeforeDispatch ==
    \A t \in DOMAIN shared :
        shared[t].status \in {"Running", "Completed"} =>
            \A d \in Range(shared[t].dependencies) :
                d \in DOMAIN shared /\ shared[d].status = "Completed"

\* a task with a dependency has been dispatched and is Running
C2_Witness ==
    \E t \in DOMAIN shared :
        /\ shared[t].status = "Running"
        /\ shared[t].dependencies /= <<>>
        /\ unit[t].st = "calling"

(* ------------------------------ C3 ------------------------------------- *)

\* C3: no task is in the ready snapshot of two rounds, a task whose unit is
\* spawned or inside the executor call is Running, and no task id is handed
\* to an executor twice
C3_NoDoubleDispatch ==
    \A t \in TaskIds :
        /\ selected[t] <= 1
        /\ dispatched[t] <= 1
        /\ unit[t].st \in {"spawned", "calling"} =>
              t \in DOMAIN shared /\ shared[t].status = "Running"

\* a second round is under way and a task of an earlier round was handed to
\* its executor once
C3_Witness ==
    /\ rounds >= 2
    /\ \E t \in TaskIds : dispatched[t] = 1 /\ unit[t].st \in Finished
    /\ \E t \in TaskIds : unit[t].st = "calling"

(* ------------------------------ C4 ------------------------------------- *)

\* the loop has ended with every task Completed or Failed
EndedComplete == is_complete(shared)

\* the loop has ended with an empty ready set while tasks are Pending
EndedDeadlocked == get_ready_tasks(shared) = {} /\ pending_count(shared) > 0

\* C4: whatever the graph, the agent bindings and the executor outcomes, the
\* loop of execute_workflow eventually ends, and it ends either with every
\* task Completed or Failed or with an empty ready set and a Pending task,
\* never both
C4_LoopEnds ==
    /\ (pc = "check") ~> (pc = "done")
    /\ [](pc = "done" => (EndedComplete /= EndedDeadlocked))

(* ------------------------------ C5 ------------------------------------- *)

\* C5: a run that stopped on deadlock is not reported the way a run that
\* completed is: execute_workflow does not return Ok and run does not log
\* success
C5_DeadlockReported ==
    (pc = "done" /\ exit = "deadlock") =>
        /\ result /= "Ok"
        /\ log /= "Workflow execution completed successfully."

(* ------------------------------ C6 ------------------------------------- *)

\* C6: once the round that dispatched a task without a registered agent is
\* over, the task is Failed and has no result
C6_MissingAgentFails ==
    \A t \in DOMAIN shared :
        (unit[t].st = "noagent" /\ t \notin handles) =>
            shared[t].status = "Failed" /\ shared[t].result = None

(* ------------------------------ C7 ------------------------------------- *)

RECURSIVE Reach(_, _, _)

\* the ids reachable from the ids of S along dependencies in at most n steps
Reach(m, S, n) ==
    IF n = 0 THEN S
    ELSE Reach(m, S \cup UNION {Range(m[t].dependencies) : t \in S \cap DOMAIN m},
               n - 1)

\* the direct and transitive dependencies of task t
TransDeps(m, t) == Reach(m, Range(m[t].dependencies), Cardinality(TaskIds))

\* g is the one task bound to an unregistered agent; it has no dependency,
\* and the other tasks have registered agents, depend only on each other
\* and lie on no cycle
OneGhostTask(g) ==
    /\ g \in DOMAIN shared
    /\ shared[g].agent_id \notin agents
    /\ shared[g].dependencies = <<>>
    /\ DOMAIN shared /= {g}
    /\ \A t \in DOMAIN shared \ {g} :
          /\ shared[t].agent_id \in agents
          /\ TransDeps(shared, t) \subseteq DOMAIN shared \ {g, t}

\* an executor call did not succeed
SomeExecutorFailed == \E t \in TaskIds : unit[t].st \in {"err", "panicked"}

\* C7: with one task bound to an unregistered agent and independent tasks
\* whose executors succeed, every independent task eventually reaches
\* Completed and the run ends
C7_IndependentTasksFinish ==
    \A g \in TaskIds :
        (pc = "check" /\ rounds = 0 /\ OneGhostTask(g)) ~>
            \/ SomeExecutorFailed
            \/ /\ pc = "done"
               /\ \A t \in DOMAIN shared \ {g} : shared[t].status = "Completed"

(* ------------------------------ C8 ------------------------------------- *)

\* C8: once the round of a task whose unit panicked inside the executor
\* call is over, the task is Failed and has no result
C8_PanicFails ==
    \A t \in DOMAIN shared :
        (unit[t].st = "panicked" /\ t \notin handles) =>
            shared[t].status = "Failed" /\ shared[t].result = None

(* ------------------------------ C9 ------------------------------------- *)

\* the write-back of the units whose executor call returned
C9_WriteBack ==
    \A t \in TaskIds :
        /\ unit[t].st = "ok" =>
              /\ unit[t].agent
              /\ shared[t].status = "Completed"
              /\ shared[t].result = unit[t].response
              /\ shared[t].result /= None
        /\ unit[t].st = "err" =>
              /\ unit[t].agent
              /\ shared[t].status = "Failed"
              /\ shared[t].result = None

\* a task whose executor call returned an error is left alone afterwards
C9_NoRetry ==
    \A t \in TaskIds :
        unit[t].st = "err" =>
            /\ unit'[t] = unit[t]
            /\ shared'[t] = shared[t]
            /\ dispatched'[t] = dispatched[t]

\* C9: a dispatched task with a registered agent becomes Completed with the
\* returned response as its result when the executor call returns a
\* response; when the call returns an error it becomes Failed without
\* result and is never dispatched again
C9_ExecutorOutcome == []C9_WriteBack /\ [][C9_NoRetry]_vars

\* one task was completed with a response and another one failed on an
\* error, and the run went on to its end
C9_Witness ==
    /\ pc = "done"
    /\ \E t \in TaskIds : unit[t].st = "ok" /\ shared[t].result = Some(NumResponses)
    /\ \E t \in TaskIds : unit[t].st = "err"

(* ------------------------------ C10 ------------------------------------ *)

\* C10: a call of update_task_status, with any status and result, leaves the
\* status and result of a task that is Completed or Failed as they are
C10_TerminalStays ==
    [][\A task_id \in TaskIds, status \in TaskStatus, res \in Options(Responses) :
          (/\ UpdateTaskStatus(task_id, status, res)
           /\ task_id \in DOMAIN tasks
           /\ tasks[task_id].status \in {"Completed", "Failed"})
          => /\ tasks'[task_id].status = tasks[task_id].status
             /\ tasks'[task_id].result = tasks[task_id].result]_vars

(* ------------------------------ C11 ------------------------------------ *)

\* the status of t changes from a to b in this step
Moves(t, a, b) == shared[t].status = a /\ shared'[t].status = b

\* C11: during a run every status change is Pending -> Running, made while
\* dispatching a round whose ready snapshot holds the task, or
\* Running -> Completed, or Running -> Failed
C11_Transitions ==
    [][\A t \in DOMAIN shared \cap DOMAIN shared' :
          shared'[t].status /= shared[t].status =>
              \/ /\ Moves(t, "Pending", "Running")
                 /\ pc = "dispatch"
                 /\ \E r \in ready_tasks : r.id = t
              \/ Moves(t, "Running", "Completed")
              \/ Moves(t, "Running", "Failed")]_vars

\* all three changes have happened: a task is Completed, one is Failed; one
\* is Running in a later round
C11_Witness ==
    /\ rounds >= 2
    /\ \E t \in DOMAIN shared : shared[t].status = "Completed"
    /\ \E t \in DOMAIN shared : shared[t].status = "Failed"
    /\ \E t \in DOMAIN shared : shared[t].status = "Running" /\ unit[t].st = "calling"

(* ------------------------------ C12 ------------------------------------ *)

\* the step in which a task becomes Failed changes no other task and no
\* other unit
C12_FailureFrame ==
    \A t \in DOMAIN shared \cap DOMAIN shared' :
        (shared[t].status /= "Failed" /\ shared'[t].status = "Failed") =>
            \A u \in TaskIds \ {t} :
                /\ unit'[u] = unit[u]
                /\ u \in DOMAIN shared => u \in DOMAIN shared' /\ shared'[u] = shared[u]

\* in a round with a Failed task, every unit that is over left its task
\* with the status of its own executor call
C12_SiblingsKeepOutcome ==
    (\E t \in handles : shared[t].status = "Failed") =>
        \A u \in handles :
            /\ unit[u].st = "ok" =>
                  shared[u].status = "Completed" /\ shared[u].result = unit[u].response
            /\ unit[u].st = "err" =>
                  shared[u].status = "Failed" /\ shared[u].result = None
            /\ unit[u].st \in {"spawned", "calling"} => shared[u].status = "Running"

\* C12: a task becoming Failed changes the status and result of no other
\* task of its round; each sibling ends the round with the terminal status
\* of its own executor call
C12_FailureIsolated == []C12_SiblingsKeepOutcome /\ [][C12_FailureFrame]_vars

\* one round holds a task that failed, a sibling that is Completed and a
\* sibling still inside its executor call
C12_Witness ==
    \E t, u, w \in handles :
        /\ unit[t].st = "err" /\ shared[t].status = "Failed"
        /\ unit[u].st = "ok" /\ shared[u].status = "Completed"
        /\ unit[w].st = "calling" /\ shared[w].status = "Running"

(* ------------------------------ C13 ------------------------------------ *)

\* the tasks of the graph that depend on f directly or transitively
Dependents(m, f) == {t \in DOMAIN m \ {f} : f \in TransDeps(m, t)}

\* the Failed tasks that have a dependent
FailedWithDependents ==
    {f \in DOMAIN shared :
        shared[f].status = "Failed" /\ Dependents(shared, f) /= {}}

\* the dependents of a Failed task are Pending, in no ready snapshot and
\* were never dispatched
C13_DependentsBlocked ==
    \A f \in FailedWithDependents : \A t \in Dependents(shared, f) :
        /\ shared[t].status = "Pending"
        /\ selected[t] = 0
        /\ dispatched[t] = 0
        /\ unit[t].st = "none"
        /\ \A r \in ready_tasks : r.id /= t

\* a run that has ended with a Failed task that has dependents ended in the
\* deadlock branch, its dependents among the Pending tasks counted
C13_EndsDeadlocked ==
    (pc = "done" /\ FailedWithDependents /= {}) =>
        /\ exit = "deadlock"
        /\ \A f \in FailedWithDependents :
              pending_count(shared) >= Cardinality(Dependents(shared, f))

\* C13: once a task is Failed its direct and transitive dependents stay
\* Pending, are in no ready set and are never dispatched, and the run ends
\* in the deadlock branch with them counted by pending_count
C13_FailedBlocksDependents ==
    /\ [](C13_DependentsBlocked /\ C13_EndsDeadlocked)
    /\ [][\A f \in FailedWithDependents : shared'[f].status = "Failed"]_vars
    /\ (FailedWithDependents /= {}) ~> (pc = "done" /\ exit = "deadlock")

\* the run ended on deadlock with a Failed task, a task that depends on it
\* and a task that depends on that one
C13_Witness ==
    /\ pc = "done" /\ exit = "deadlock"
    /\ \E f, t, u \in DOMAIN shared :
          /\ shared[f].status = "Failed"
          /\ shared[t].dependencies = <<f>>
          /\ shared[u].dependencies = <<t>>
          /\ {t, u} \subseteq Dependents(shared, f)
          /\ pending_count(shared) = Cardinality(Dependents(shared, f))

(* ------------------------------ C14 ------------------------------------ *)

\* the graph is not empty and every task of it lies on a dependency cycle
AllOnCycle(m) == DOMAIN m /= {} /\ \A t \in DOMAIN m : t \in TransDeps(m, t)

\* on such a graph no round is dispatched and no executor is called, and the
\* loop is left on deadlock with every task Pending
C14_NoDispatch ==
    (pc /= "idle" /\ AllOnCycle(shared)) =>
        /\ rounds = 0
        /\ \A t \in TaskIds : dispatched[t] = 0 /\ unit[t].st = "none"
        /\ pc \in {"check", "snapshot", "empty", "exited", "done"}
        /\ pc \in {"exited", "done"} =>
              /\ exit = "deadlock"
              /\ pending_count(shared) = Cardinality(DOMAIN shared)

\* C14: a run on a graph whose tasks all lie on a dependency cycle ends as
\* deadlocked in the first iteration, with no executor call and with
\* pending_count equal to the number of tasks
C14_CycleDeadlocks ==
    /\ []C14_NoDispatch
    /\ (pc = "check" /\ AllOnCycle(shared)) ~> (pc = "done" /\ exit = "deadlock")

\* the run on the graph A -> B -> A has ended on deadlock with two Pending
\* tasks
C14_Witness ==
    /\ pc = "done" /\ exit = "deadlock"
    /\ DOMAIN shared = {"A", "B"}
    /\ shared["A"].dependencies = <<"B">>
    /\ shared["B"].dependencies = <<"A">>
    /\ pending_count(shared) = Cardinality({"A", "B"})

(* ------------------------------ C15 ------------------------------------ *)

\* a unit that is spawned or inside its executor call
InFlight(t) == unit[t].st \in {"spawned", "calling"}

\* C15: round barrier: whenever the coordinator is between rounds (testing
\* the loop condition, taking the snapshot) or dispatching the next round,
\* every unit of the earlier rounds is over and the status of every unit
\* whose executor call returned is written
C15_RoundBarrier ==
    /\ pc \in {"check", "snapshot", "empty", "exited", "done"} =>
          handles = {} /\ \A t \in TaskIds : ~InFlight(t)
    /\ \A t \in TaskIds : InFlight(t) => t \in handles
    /\ \A t \in TaskIds \ handles :
          /\ unit[t].st = "ok" =>
                shared[t].status = "Completed" /\ shared[t].result = unit[t].response
          /\ unit[t].st = "err" => shared[t].status = "Failed"

\* the second round is being dispatched after a first round of two units,
\* both over
C15_Witness ==
    /\ rounds = 2
    /\ \E t, u \in TaskIds \ handles :
          t /= u /\ unit[t].st = "ok" /\ unit[u].st \in Finished
    /\ \E w \in handles : InFlight(w)

(* ------------------------------ C16 ------------------------------------ *)

C17_ContextExact ==
    \A t \in DOMAIN shared :
        unit[t].st /= "none" =>
            /\ DOMAIN unit[t].context = Range(shared[t].dependencies)
            /\ \A d \in DOMAIN unit[t].context :
                  /\ shared[d].result /= None
                  /\ unit[t].context[d] = to_message(shared[d].result[1])

\* a task with one dependency was dispatched while the graph holds another
\* Completed task that is not its dependency
C17_Witness ==
    \E t, d, o \in DOMAIN shared :
        /\ unit[t].st = "calling"
        /\ shared[t].dependencies = <<d>>
        /\ o \notin {t, d}
        /\ shared[o].status = "Completed"
        /\ DOMAIN unit[t].context = {d}

(* ------------------------------ C18 ------------------------------------ *)

\* the graph A, B (depends on A), C (depends on A and B), agents registered
Chain(m) ==
    /\ DOMAIN m = {"A", "B", "C"}
    /\ m["A"].dependencies = <<>>
    /\ m["B"].dependencies = <<"A">>
    /\ m["C"].dependencies = <<"A", "B">>
    /\ \A t \in DOMAIN m : m[t].agent_id \in agents

\* the ready snapshot of the round being dispatched or joined
RoundSnapshot == {r.id : r \in ready_tasks} \cup handles

\* round n dispatches the n-th task alone; a run without executor failure
\* ends after three rounds, all Completed, C having got both results
C18_Rounds ==
    (pc /= "idle" /\ Chain(shared)) =>
        /\ rounds <= Len(IdOrder)
        /\ pc \in {"dispatch", "join"} => RoundSnapshot = {IdOrder[rounds]}
        /\ (pc = "done" /\ ~SomeExecutorFailed) =>
              /\ rounds = Len(IdOrder)
              /\ exit = "complete"
              /\ \A t \in DOMAIN shared : shared[t].status = "Completed"
              /\ DOMAIN unit["C"].context = {"A", "B"}
              /\ \A d \in {"A", "B"} :
                    unit["C"].context[d] = to_message(shared[d].result[1])

\* C18: with A, B (depends on A) and C (depends on A and B) and executors
\* that all succeed, the run has the three rounds {A}, {B}, {C}, ends with
\* all three Completed, and C's context holds the results of A and B
C18_ChainRun ==
    /\ []C18_Rounds
    /\ (pc = "check" /\ rounds = 0 /\ Chain(shared)) ~>
           (SomeExecutorFailed \/ pc = "done")

\* the run on that graph has ended after three rounds, A and B having
\* returned different responses
C18_Witness ==
    /\ pc = "done" /\ Chain(shared) /\ ~SomeExecutorFailed
    /\ rounds = Len(IdOrder)
    /\ shared["A"].result /= shared["B"].result
    /\ unit["C"].context["A"] /= unit["C"].context["B"]
    /\ shared["C"].status = "Completed"

(* ------------------------------ C19 ------------------------------------ *)

\* C19: after run has returned, the workflow it was called on shows, for
\* every task the run reached, the final status and result of that task
C19_ResultsReadable ==
    pc = "done" =>
        \A t \in DOMAIN shared :
            unit[t].st /= "none" =>
                /\ tasks[t].status = shared[t].status
                /\ tasks[t].result = shared[t].result

(* ------------------------------ C20 ------------------------------------ *)

\* d cannot be Completed by this run: it is not in the graph, lies on a
\* dependency cycle, or its unit ended without a response
CannotComplete(d) ==
    \/ d \notin DOMAIN shared
    \/ d \in TransDeps(shared, d)
    \/ unit[d].st \in {"err", "panicked", "noagent"}

\* C20: an executor error never becomes the result of execute_workflow; the
\* loop goes on, and every task that neither fails itself nor depends,
\* directly or transitively, on a task that cannot complete reaches
\* Completed
C20_ErrorsStayLocal ==
    /\ [](result /= "Err")
    /\ [][\A t \in TaskIds : (unit[t].st /= "err" /\ unit'[t].st = "err") =>
             pc' = pc /\ pc' \notin {"exited", "done"}]_vars
    /\ \A t \in TaskIds :
          (pc = "check" /\ t \in DOMAIN shared) ~>
              \/ CannotComplete(t)
              \/ shared[t].status = "Completed"
              \/ \E d \in TransDeps(shared, t) : CannotComplete(d)

\* the run ended with Ok although an executor call returned an error, and a
\* task that does not depend on the failed one was Completed in a later
\* round
C20_Witness ==
    /\ pc = "done" /\ result = "Ok"
    /\ \E f, d, t \in DOMAIN shared :
          /\ unit[f].st = "err" /\ shared[f].status = "Failed"
          /\ shared[t].dependencies = <<d>>
          /\ f \notin {d, t}
          /\ shared[t].status = "Completed"

(* ------------------------------ C21 ------------------------------------ *)

\* C21: in a run started with every task Pending and without result, a task
\* has a result exactly when it is Completed
C21_ResultIffCompleted ==
    \A t \in DOMAIN shared :
        (shared[t].result /= None) <=> (shared[t].status = "Completed")

\* the graph of the run holds a Completed, a Failed and a Running task
C21_Witness ==
    \E a, b, c \in DOMAIN shared :
        /\ shared[a].status = "Completed" /\ shared[a].result /= None
        /\ shared[b].status = "Failed"
        /\ shared[c].status = "Running"

(* ------------------------------ C22 ------------------------------------ *)

\* no task of m is Pending or Running
NoneUnfinished(m) == \A t \in DOMAIN m : m[t].status \notin {"Pending", "Running"}

\* C22: is_complete is true exactly when no task is Pending or Running, then
\* pending_count is 0; a run on the empty graph leaves the loop at its first
\* test, as complete, without a snapshot or a dispatch
C22_IsComplete ==
    /\ is_complete(shared) <=> NoneUnfinished(shared)
    /\ is_complete(shared) => pending_count(shared) = 0
    /\ (pc /= "idle" /\ shared = EmptyMap) =>
          /\ is_complete(shared)
          /\ pc \in {"check", "exited", "done"}
          /\ rounds = 0
          /\ \A t \in TaskIds : unit[t].st = "none"
          /\ pc \in {"exited", "done"} => exit = "complete"

\* the loop has been left as complete on a graph holding a Completed and a
\* Failed task
C22_Witness ==
    /\ pc = "done" /\ exit = "complete"
    /\ is_complete(shared)
    /\ \E a, b \in DOMAIN shared :
          shared[a].status = "Completed" /\ shared[b].status = "Failed"

(* ------------------------------ C23 ------------------------------------ *)

\* t depends on an id that is not in the graph, on itself, or lies on a
\* dependency cycle
BadDependency(m, t) ==
    \/ \E d \in Range(m[t].dependencies) : d \notin DOMAIN m
    \/ t \in TransDeps(m, t)

\* C23: a task added with a dependency on an absent id, on itself or on a
\* cycle is in the graph, and in the run it stays Pending, is in no ready
\* set and is never dispatched
C23_BadDependencyNeverRuns ==
    \A t \in DOMAIN shared :
        BadDependency(shared, t) =>
            /\ t \in DOMAIN tasks
            /\ shared[t].status = "Pending"
            /\ selected[t] = 0
            /\ dispatched[t] = 0
            /\ unit[t].st = "none"
            /\ \A r \in ready_tasks : r.id /= t

\* the run has ended with a task depending on itself and a task depending
\* on an id that is not in the graph, a third task having been Completed
C23_Witness ==
    /\ pc = "done"
    /\ \E a, b, c \in DOMAIN shared :
          /\ a \in Range(shared[a].dependencies)
          /\ \E d \in Range(shared[b].dependencies) : d \notin DOMAIN shared
          /\ shared[c].status = "Completed"

(* ------------------------------ C24 ------------------------------------ *)

\* a remove_task(id) step deletes the entry of id and nothing else
C24_Frame ==
    \A id \in TaskIds :
        remove_task(id) =>
            /\ DOMAIN tasks' = DOMAIN tasks \ {id}
            /\ \A t \in DOMAIN tasks' : tasks'[t] = tasks[t]
            /\ \A r \in get_ready_tasks(tasks') :
                  id \notin Range(r.dependencies)

\* a task listing an id that is not in the graph is not ready
C24_DependentsUnready ==
    \A r \in get_ready_tasks(tasks) :
        \A d \in Range(r.dependencies) : d \in DOMAIN tasks

\* C24: remove_task(id) deletes only the task id and leaves every other task
\* as it was; while id is not in the graph no task listing it is ready
C24_RemoveNoCascade == []C24_DependentsUnready /\ [][C24_Frame]_vars

\* a Pending task lists an id whose task has been removed: the cached order
\* still holds an id that no task of the graph has or lists
C24_Witness ==
    /\ \E t \in DOMAIN tasks :
          /\ tasks[t].status = "Pending"
          /\ \E d \in Range(tasks[t].dependencies) :
                d \notin DOMAIN tasks /\ d \in Range(execution_order)
    /\ \E x \in Range(execution_order) :
          /\ x \notin DOMAIN tasks
          /\ \A t \in DOMAIN tasks : x \notin Range(tasks[t].dependencies)

(* ------------------------------ C25 ------------------------------------ *)

\* C25: after any sequence of add_task and remove_task calls the cached
\* execution_order is an ordering computed from the current task map
C25_OrderIsFresh ==
    execution_order \in
        {rebuild_execution_order(tasks, keys) : keys \in Perms(DOMAIN tasks)}

(* ------------------------------ C29 ------------------------------------ *)

\* C29: update_task_status on an id that is not in the graph changes
\* neither the task map nor the execution order, and inserts no task
C29_UnknownIdNoOp ==
    [][\A task_id \in TaskIds, status \in TaskStatus,
         res \in Options(Responses) :
           (task_id \notin DOMAIN tasks
              /\ UpdateTaskStatus(task_id, status, res)) =>
               /\ tasks' = tasks
               /\ execution_order' = execution_order]_vars

\* the graph holds a task and lacks an id that was removed from it or is
\* only listed as a dependency; an update under that id returns the map as
\* it is
C29_Witness ==
    /\ tasks /= EmptyMap
    /\ \E task_id \in Range(execution_order) \ DOMAIN tasks :
          /\ get(tasks, task_id) = None
          /\ update_task_status(tasks, task_id, "Completed", Some(1)) = tasks

(* ------------------------------ C27 ------------------------------------ *)

\* t and u are two tasks of the current round bound to one registered agent
SameAgentPair(t, u) ==
    /\ t /= u
    /\ t \in handles /\ u \in handles
    /\ shared[t].agent_id = shared[u].agent_id
    /\ unit[t].agent /\ unit[u].agent

\* C27: tasks of one round bound to the same registered agent all get their
\* unit in that round; the unit of one can always take its next step
\* whatever the state of the other, and each ends with the status of its
\* own executor call
C27_SameAgentConcurrent ==
    /\ pc = "join" => ready_tasks = {}
    /\ \A t, u \in DOMAIN shared :
          SameAgentPair(t, u) =>
              /\ unit[t].st = "spawned" => ENABLED UnitStart(t)
              /\ unit[t].st = "calling" =>
                    /\ \A response \in Responses : ENABLED ExecutorOk(t, response)
                    /\ ENABLED ExecutorErr(t)
              /\ unit[t].st = "ok" =>
                    /\ shared[t].status = "Completed"
                    /\ shared[t].result = unit[t].response
              /\ unit[t].st = "err" => shared[t].status = "Failed"

\* two tasks of one round bound to the same registered agent are inside
\* their executor calls at the same moment
C27_Witness ==
    \E t, u \in DOMAIN shared :
        /\ SameAgentPair(t, u)
        /\ unit[t].st = "calling" /\ unit[u].st = "calling"

(* ------------------------------ C30 ------------------------------------ *)

\* C30: with no outside mutation of the graph the coordinator never finds
\* the ready set empty and pending_count 0 on a graph that is not complete
C30_ContinueUnreachable ==
    ~(pc = "empty" /\ pending_count(shared) = 0)

(* ------------------------------ C28 ------------------------------------ *)

\* C28: when the provider client call fails, execute_async_task and
\* execute_task return that error instead of a response, and the unit
\* records its task as Failed, without result
C28_ClientErrorFails ==
    [][\A t \in TaskIds, e \in ClientErrors :
          ExecutorReturn(t, Err(e)) =>
              /\ execute_async_task(shared[t], unit[t].context, Err(e)) = Err(e)
              /\ execute_task(shared[t], unit[t].context, Err(e)) = Err(e)
              /\ unit'[t].st = "err"
              /\ shared'[t].status = "Failed"
              /\ shared'[t].result = None]_vars

\* the client call of a task failed and the task is Failed, while the call
\* of another task returned a response
C28_Witness ==
    \E t, u \in DOMAIN shared :
        /\ unit[t].st = "err" /\ shared[t].status = "Failed"
        /\ unit[u].st = "ok" /\ shared[u].status = "Completed"

(* ------------------------------ C26 ------------------------------------ *)

\* ids of the tasks added to the shared workflow after run cloned it
AddedFromOutside == DOMAIN shared \ DOMAIN tasks

\* every dependency of t is a Completed task of the shared graph
DepsCompleted(t) ==
    \A d \in Range(shared[t].dependencies) :
        d \in DOMAIN shared /\ shared[d].status = "Completed"

\* C26: when the run is over, a task added from outside during the run,
\* with every dependency Completed and an agent whose call did not fail, is
\* Completed
C26_AddedTaskCompletes ==
    pc = "done" =>
        \A t \in AddedFromOutside :
            (/\ DepsCompleted(t)
             /\ shared[t].agent_id \in agents
             /\ unit[t].st \notin {"err", "panicked"}) =>
                shared[t].status = "Completed"

\* a snapshot holds every added task that is Pending with all dependencies
\* Completed at the moment it is taken
C26_SnapshotHoldsAdded ==
    Snapshot =>
        \A t \in AddedFromOutside :
            (shared[t].status = "Pending" /\ DepsCompleted(t)) =>
                shared[t] \in ready_tasks'

\* at the end of the run an added task that was in a snapshot, with a
\* registered agent whose call did not fail, is Completed with a result, and
\* one that was in no snapshot is still Pending and was never dispatched
C26_AddedAtEnd ==
    pc = "done" =>
        \A t \in AddedFromOutside :
            /\ (/\ selected[t] > 0
                /\ unit[t].agent
                /\ unit[t].st \notin {"err", "panicked"}) =>
                   /\ shared[t].status = "Completed"
                   /\ shared[t].result = unit[t].response
            /\ selected[t] = 0 =>
                   /\ shared[t].status = "Pending"
                   /\ unit[t].st = "none"

\* C26 as it holds: an added task is dispatched and Completed before the run
\* ends when a ready snapshot is taken while it is in the graph with all its
\* dependencies Completed; added after the last snapshot it stays Pending
C26_AddedTaskInLaterSnapshot ==
    []C26_AddedAtEnd /\ [][C26_SnapshotHoldsAdded]_vars

\* the run has ended after two rounds or more with an added task that
\* depends on a task of the original graph and is Completed
C26_Witness ==
    /\ pc = "done"
    /\ rounds >= 2
    /\ \E t \in AddedFromOutside :
          /\ shared[t].dependencies /= <<>>
          /\ DepsCompleted(t)
          /\ selected[t] = 1
          /\ shared[t].status = "Completed"

(* ------------------------------ C31 ------------------------------------ *)

\* number of positions of the order that hold id
Occurrences(order, id) == Cardinality({i \in DOMAIN order : order[i] = id})

\* C31: the order rebuilt by add_task, on graphs with self-dependencies and
\* cycles too, holds every task id of the graph exactly once
C31_EveryTaskOnce ==
    \A t \in DOMAIN tasks : Occurrences(execution_order, t) = 1

\* the order was rebuilt on a graph of three tasks that form one cycle of
\* length three
C31_Witness ==
    /\ Cardinality(DOMAIN tasks) = 3
    /\ AllOnCycle(tasks)
    /\ \A t \in DOMAIN tasks :
          Len(tasks[t].dependencies) = 1 /\ tasks[t].dependencies /= <<t>>
    /\ Len(execution_order) = 3

(* ------------------------------ C32 ------------------------------------ *)

\* no task of m depends on itself, directly or through other tasks
Acyclic(m) == \A t \in DOMAIN m : t \notin TransDeps(m, t)

\* the first position of id in the order, 0 when it is not in it
Position(order, id) ==
    IF id \in Range(order)
    THEN CHOOSE i \in DOMAIN order :
            order[i] = id /\ \A j \in 1..(i - 1) : order[j] /= id
    ELSE 0

\* C32: on a graph without dependency cycle the order rebuilt by add_task
\* holds every dependency of a task before the task, for every order in
\* which the keys of the map are traversed
C32_DepsFirst ==
    Acyclic(tasks) =>
        \A t \in DOMAIN tasks :
            \A d \in Range(tasks[t].dependencies) :
                /\ Position(execution_order, d) > 0
                /\ Position(execution_order, d) < Position(execution_order, t)

\* three tasks without cycle, one of them with two dependencies, the keys
\* having been traversed from a dependent task on
C32_Witness ==
    /\ Cardinality(DOMAIN tasks) = 3
    /\ Acyclic(tasks)
    /\ \E t \in DOMAIN tasks : Len(tasks[t].dependencies) = 2
    /\ \E t \in DOMAIN tasks :
          tasks[t].dependencies /= <<>> /\ execution_order[3] = t

(* ------------------------------ C33 ------------------------------------ *)

\* C33: the cached order is the one and only order of the task set: it is
\* the result of the rebuild for every iteration order of the map
C33_OrderDeterministic ==
    \A keys \in Perms(DOMAIN tasks) :
        execution_order = rebuild_execution_order(tasks, keys)

(* ------------------------------ C38 ------------------------------------ *)

\* C38: after add_task every id of execution_order is the id of a task of
\* the graph
C38_OrderHoldsTasksOnly == Range(execution_order) \subseteq DOMAIN tasks

(* ------------------------------ C34 ------------------------------------ *)

\* every task that was in a snapshot and no longer waits in the vector being
\* iterated has been marked and has its unit; the loop goes on to the join
\* with the vector used up, and leaves the join only with every unit over
C34_NoneDeferred ==
    /\ \A t \in TaskIds :
          (selected[t] > 0 /\ \A r \in ready_tasks : r.id /= t) =>
              /\ unit[t].st /= "none"
              /\ shared[t].status /= "Pending"
              /\ selected[t] = 1
    /\ pc = "dispatch" => ready_tasks /= {}
    /\ pc = "join" => ready_tasks = {}
    /\ pc \notin {"dispatch", "join"} =>
          ready_tasks = {} /\ \A t \in TaskIds : ~InFlight(t)

\* a step of the for loop marks its task Running and spawns its unit, in
\* the round of the snapshot
C34_DispatchStep ==
    \A task \in ready_tasks :
        Dispatch(task) =>
            /\ shared'[task.id].status = "Running"
            /\ unit[task.id].st = "none" /\ unit'[task.id].st = "spawned"
            /\ handles' = handles \cup {task.id}
            /\ rounds' = rounds

\* C34: every task of a round's ready snapshot is marked Running and gets
\* its own unit in that round, none is skipped or left for a later round,
\* and the coordinator waits for all units of the round
C34_WholeSnapshotDispatched == []C34_NoneDeferred /\ [][C34_DispatchStep]_vars

\* a round of three units is being joined: one unit is over with a
\* response, one with an error, one is still inside its call
C34_Witness ==
    /\ pc = "join"
    /\ Cardinality(handles) = 3
    /\ \E a, b, c \in handles :
          unit[a].st = "ok" /\ unit[b].st = "err" /\ unit[c].st = "calling"

(* ------------------------------ C39 ------------------------------------ *)

\* in the run pending_count never grows; a step of the for loop lowers it by
\* one and no other step changes it
C39_PendingStep ==
    pc /= "idle" =>
        /\ pending_count(shared') <= pending_count(shared)
        /\ IF \E task \in ready_tasks : Dispatch(task)
           THEN pending_count(shared') = pending_count(shared) - 1
           ELSE pending_count(shared') = pending_count(shared)

\* while a round is dispatched or joined, the tasks of its snapshot not yet
\* reached are the Pending ones among them; rounds never outnumber tasks
C39_RoundCount ==
    /\ pc \in {"dispatch", "join"} =>
          /\ \A r \in ready_tasks : shared[r.id].status = "Pending"
          /\ \A t \in handles : shared[t].status /= "Pending"
    /\ rounds <= Cardinality(DOMAIN shared)

\* C39: without outside mutation pending_count never increases, a round
\* lowers it by one per task of its ready set, and there are at most as many
\* dispatching rounds as tasks
C39_PendingDecreases == []C39_RoundCount /\ [][C39_PendingStep]_vars

\* a run of three rounds on three tasks is over with no task Pending
C39_Witness ==
    /\ pc = "done"
    /\ Cardinality(DOMAIN shared) = 3
    /\ rounds = 3
    /\ pending_count(shared) = 0

(* ------------------------------ C35 ------------------------------------ *)

\* C35: after execute_task or execute_async_task has returned, with a
\* response or an error, the task given to it is what it was before the
\* call: the context messages went into a private copy only
C35_TaskUntouched ==
    call.st = "returned" =>
        /\ call.task_after = call.task
        /\ call.task_after[1].prompt = call.task[1].prompt
        /\ call.task_after[1].dependencies = call.task[1].dependencies
        /\ call.task_after[1].id = call.task[1].id

\* a call has returned an error after context messages had been put into
\* the prompt that was sent
C35_Witness ==
    /\ call.st = "returned"
    /\ ~call.ret[1].ok
    /\ Len(call.sent[1].user_message) > Len(call.task[1].prompt.user_message)

(* ------------------------------ C36 ------------------------------------ *)

\* the context messages under the keys that are dependencies of the task
DependencyMessages(task, context_messages) ==
    UNION {Range(context_messages[d]) :
              d \in Range(task.dependencies) \cap DOMAIN context_messages}

\* C36: the prompt sent is the original user messages, in their order,
\* preceded by exactly the context messages of the task's dependencies
C36_ContextFirst ==
    call.st = "returned" =>
        LET original == call.task[1].prompt.user_message
            sent     == call.sent[1].user_message
            n        == Len(sent) - Len(original)
            expected == DependencyMessages(call.task[1], call.context_messages)
        IN  /\ n >= 0
            /\ SubSeq(sent, n + 1, Len(sent)) = original
            /\ {sent[i] : i \in 1..n} = expected
            /\ n = Cardinality(expected)

\* a call has returned whose task has two user messages and a dependency
\* with context messages, the context also holding messages under a key
\* that is no dependency of the task
C36_Witness ==
    /\ call.st = "returned"
    /\ Len(call.task[1].prompt.user_message) = 2
    /\ \E d \in Range(call.task[1].dependencies) \cap DOMAIN call.context_messages :
          call.context_messages[d] /= <<>>
    /\ \E k \in DOMAIN call.context_messages \ Range(call.task[1].dependencies) :
          call.context_messages[k] /= <<>>

(* ------------------------------ C37 ------------------------------------ *)

\* C37: the messages of one dependency stand in the prompt sent in the
\* order they have in the context
C37_MessageOrderKept ==
    call.st = "returned" =>
        \A d \in Range(call.task[1].dependencies) \cap DOMAIN call.context_messages :
            \A i, j \in DOMAIN call.context_messages[d] :
                i < j =>
                    Position(call.sent[1].user_message, call.context_messages[d][i])
                      < Position(call.sent[1].user_message, call.context_messages[d][j])

(* ------------------------------ C40 ------------------------------------ *)

\* the future of t has returned from its executor call and is at, or
\* inside, the write of its arm
WantsWrite(t) == unit[t].st \in {"got_ok", "got_err"}

\* nobody holds a guard while suspended: a future holds the lock only
\* inside the arm after its call, the coordinator only inside one of its
\* blocks, never at the join
C40_NoGuardWhileSuspended ==
    /\ \A t \in TaskIds :
          unit[t].st \in {"spawned", "calling"} => lock.holder /= t
    /\ lock.holder \in TaskIds => WantsWrite(lock.holder)
    /\ pc \in {"join", "dispatch", "spawn", "exited", "done", "idle"} =>
          lock.holder /= "coordinator"

\* C40: neither the coordinator nor a future holds the lock while it is
\* suspended on an executor call or on the join, every future that asks for
\* the write lock gets it and records its status, the coordinator gets
\* through the guards of a loop iteration, and a held lock is released
C40_LockNeverBlocks ==
    /\ []C40_NoGuardWhileSuspended
    /\ \A t \in TaskIds : WantsWrite(t) ~> (unit[t].st \in {"ok", "err"})
    /\ (pc = "mark") ~> (pc = "spawn")
    /\ (lock /= Free) ~> (lock = Free)

\* a future asks for the write lock while the future of another task of the
\* round holds it
C40_Witness ==
    \E t, u \in TaskIds :
        /\ t /= u
        /\ WantsWrite(t) /\ WantsWrite(u)
        /\ lock = Held(u, "write")
        /\ pc = "join"

====
